---- MODULE Spec2Model ----
(***************************************************************************)
(* Highlight anchoring and overlay positioning of browser-pal:             *)
(* PositionCalculator, HighlightOverlayManager and EditorController.       *)
(*                                                                         *)
(* The editable container is modelled by its text content, a sequence of   *)
(* characters laid out in lines of `cols` characters.  Markup is not       *)
(* modelled.  The text-quote library (dom-anchor-text-quote) is outside    *)
(* the repository; toRange and fromRange model its documented behaviour on *)
(* the container text: context of at most ContextLen characters, and a     *)
(* match that tolerates mismatches up to half of the quote's length.       *)
(*                                                                         *)
(* HighlightOverlayManager has no setUpdateHandler and recalculateAll      *)
(* reads only id and rects of each result, so the update handler that      *)
(* EditorController.setupEventListeners passes is never invoked; the       *)
(* handler is kept as the operator UpdateHandler.                          *)
(*                                                                         *)
(* Overlay elements are numbered.  A new element takes the smallest number *)
(* that no existing element has, so a number identifies an element within  *)
(* a state; `created` records which elements the last operation created.   *)
(* Callers are assumed not to call the controller after destroy(); DOM     *)
(* events and an outstanding animation frame still arrive.                 *)
(***************************************************************************)
EXTENDS Integers, Sequences, FiniteSets, TLC

\* ------------------------------------------------------------------ bounds
MaxDoc == 2

MaxRequests == 2

\* ---------------------------------------------------------------- universe
Chars == {"a", "b"}

\* a whitespace character
Space == " "

Ids == {"h1", "h2"}

\* the ids that generateId can return
GeneratedIds == {"h2"}

ContextLen == 1

NarrowCols == 1

WideCols == 2

MaxScroll == 1

OriginLeft == 1

OriginTop == 1

LineHeight == 1

NoRange == [start |-> -1, end |-> -1]

NoText == <<"\\null">>

Min(a, b) == IF a < b THEN a ELSE b

Max(a, b) == IF a > b THEN a ELSE b

\* text[s, e) with 0-based offsets, as String.prototype.substring
Slice(text, s, e) == SubSeq(text, s + 1, e)

Docs == UNION {[1..n -> Chars \cup {Space}] : n \in 0..MaxDoc}

\* -------------------------------------------------- dom-anchor-text-quote
\* number of positions at which two texts of the same length differ
Mismatches(u, v) == Cardinality({i \in 1..Len(u) : u[i] # v[i]})

\* how much of the anchor's context surrounds the window that starts at p
ContextScore(text, anchor, p) ==
    LET n  == Len(anchor.exact)
        lp == Len(anchor.prefix)
        ls == Len(anchor.suffix)
        pre == IF lp > 0 /\ p >= lp /\ Slice(text, p - lp, p) = anchor.prefix
               THEN 1 ELSE 0
        suf == IF ls > 0 /\ p + n + ls <= Len(text)
                         /\ Slice(text, p + n, p + n + ls) = anchor.suffix
               THEN 1 ELSE 0
    IN  pre + suf

\* positions whose window matches the quote within the tolerance
Candidates(text, anchor) ==
    LET n == Len(anchor.exact)
    IN  {p \in 0..(Len(text) - n) :
            2 * Mismatches(Slice(text, p, p + n), anchor.exact) <= n}

\* p is preferred to q: fewer mismatches, then more context, then earlier
Better(text, anchor, p, q) ==
    LET n  == Len(anchor.exact)
        mp == Mismatches(Slice(text, p, p + n), anchor.exact)
        mq == Mismatches(Slice(text, q, q + n), anchor.exact)
        cp == ContextScore(text, anchor, p)
        cq == ContextScore(text, anchor, q)
    IN  \/ mp < mq
        \/ mp = mq /\ cp > cq
        \/ mp = mq /\ cp = cq /\ p <= q

toRange(text, anchor) ==
    IF Len(anchor.exact) = 0 \/ Candidates(text, anchor) = {}
    THEN NoRange
    ELSE LET p == CHOOSE c \in Candidates(text, anchor) :
                      \A q \in Candidates(text, anchor) : Better(text, anchor, c, q)
         IN  [start |-> p, end |-> p + Len(anchor.exact)]

fromRange(text, s, e) ==
    [exact  |-> Slice(text, s, e),
     prefix |-> Slice(text, Max(0, s - ContextLen), s),
     suffix |-> Slice(text, e, Min(Len(text), e + ContextLen))]


\* ------------------------------------------------------------------- state
VARIABLES
    doc,            \* text content of the editable container
    cols,           \* characters per rendered line (container width)
    scrollTop,      \* container scroll offset, in lines
    fontsPending,   \* document.fonts.ready has not resolved yet
    highlights,     \* EditorController.highlights (insertion-ordered Map)
    ovHighlights,   \* HighlightOverlayManager.highlights (insertion-ordered Map)
    overlays,       \* HighlightOverlayManager.overlays: id -> elements
    children,       \* child elements of the overlay container, in order
    attached,       \* the overlay container is in the document
    pendingRecalc,  \* HighlightOverlayManager.pendingRecalc
    rafQueue,       \* animation-frame callbacks registered and not yet run
    lastOp,         \* the operation that produced this state
    emitted,        \* listener calls made by the last operation
    passes,         \* recalculateAll passes run by the last operation
    created,        \* overlay elements created by the last operation
    requests,       \* scheduleRecalculation calls since the last frame fired
    served,         \* calls that the frame which just fired had collected
    unserved,       \* a trigger occurred and no pass has started since
    orphanSeen,     \* ids found unresolved since they were last added or loaded
    removedIds,     \* ids removed with removeHighlight and not added since
    selection,      \* window.getSelection(): the range the user has selected
    editorChildren, \* overlay elements that are children of the editable element
    thrown,         \* the last operation ended with an exception
    lastCalc,       \* argument and result of the last calculateAll call
    repeated,       \* the last operation repeats: a pass directly after a pass,
                    \* or destroy on a manager that is already destroyed
    resolved,       \* the last anchor resolved on its own, and what was returned
    delivered,      \* the getSelection() result passed to onSelectionChange, while
                    \* only insertAtCursor has run since; null otherwise
    listeners,      \* EditorController.events: event type -> registered callbacks
    called,         \* the callbacks that the last operation has called
    sent,           \* the messages the last operation has sent to the service worker
    panel,          \* the side panel page: thread panel, pending replies, save timers
    palette,        \* the command palette: visibility, filtered commands, selectedIndex
    storage         \* chrome.storage.local: key -> value

vars == <<doc, cols, scrollTop, fontsPending, highlights, ovHighlights,
          overlays, children, attached, pendingRecalc, rafQueue,
          lastOp, emitted, passes, created, requests, served, unserved,
          orphanSeen,
          removedIds, selection, editorChildren, thrown, lastCalc, repeated,
          resolved, delivered, listeners, called, sent, panel, palette,
          storage>>

\* ------------------------------------------------ insertion-ordered Maps
MapKeys(m) == {m[i].id : i \in 1..Len(m)}

MapHas(m, id) == id \in MapKeys(m)

MapGet(m, id) == m[CHOOSE i \in 1..Len(m) : m[i].id = id]

\* variant: an entry is added whether or not the key exists
MapSetAppends(m, entry) == Append(m, entry)

\* Map.prototype.set: an existing key keeps its position
MapSet(m, entry) ==
    IF MapHas(m, entry.id)
    THEN [i \in 1..Len(m) |-> IF m[i].id = entry.id THEN entry ELSE m[i]]
    ELSE Append(m, entry)

MapDelete(m, id) == SelectSeq(m, LAMBDA x : x.id # id)

SeqRange(s) == {s[i] : i \in 1..Len(s)}

\* --------------------------------------------------------------- geometry
\* fallback glyphs are one unit wide, the loaded font's glyphs two
GlyphWidth == IF fontsPending THEN 1 ELSE 2

\* Range.getClientRects: one viewport rectangle per rendered line of [s, e)
getClientRects(s, e) ==
    LET first == s \div cols
        last  == (e - 1) \div cols
    IN  [k \in 1..(last - first + 1) |->
            LET line == first + k - 1
                from == Max(s, line * cols)
                to   == Min(e, (line + 1) * cols)
            IN  [left   |-> OriginLeft + (from - line * cols) * GlyphWidth,
                 top    |-> OriginTop + (line - scrollTop) * LineHeight,
                 width  |-> (to - from) * GlyphWidth,
                 height |-> LineHeight]]

\* ---------------------------------------------------- PositionCalculator
\* toRange throws: the selector has no exact (a damaged stored highlight)
toRangeThrows(anchor) == anchor.exact = NoText

\* where a resolution runs: the container is in the document, and the
\* start and the end of the range that toRange locates lie in the container
Within == [isConnected |-> TRUE, startIn |-> TRUE, endIn |-> TRUE]

Conditions == [isConnected : BOOLEAN, startIn : BOOLEAN, endIn : BOOLEAN]

\* getRectsForAnchor under condition c: the try block with its two
\* not-found returns, and the catch block when toRange throws
getRectsForAnchorIn(anchor, c) ==
    IF toRangeThrows(anchor)
    THEN [rects |-> <<>>, foundText |-> NoText]
    ELSE LET range == toRange(doc, anchor)
         IN  IF range = NoRange
             THEN [rects |-> <<>>, foundText |-> NoText]
             ELSE IF ~c.startIn \/ ~c.endIn
                  THEN [rects |-> <<>>, foundText |-> NoText]
                  ELSE [rects     |-> getClientRects(range.start, range.end),
                        foundText |-> Slice(doc, range.start, range.end)]

\* getRectsForAnchor on the editor's own container
getRectsForAnchor(anchor) == getRectsForAnchorIn(anchor, Within)

\* PositionCalculator.getRangeFromAnchor under condition c
getRangeFromAnchor(anchor, c) ==
    IF toRangeThrows(anchor)
    THEN NoRange
    ELSE LET range == toRange(doc, anchor)
         IN  IF range # NoRange /\ c.startIn THEN range ELSE NoRange

\* anchor-utils findRangeFromAnchor under condition c
findRangeFromAnchor(anchor, c) ==
    IF ~c.isConnected \/ toRangeThrows(anchor)
    THEN NoRange
    ELSE LET range == toRange(doc, anchor)
         IN  IF range = NoRange
             THEN NoRange
             ELSE IF ~c.startIn \/ ~c.endIn THEN NoRange ELSE range

\* variant (the earlier version): the scroll offset is added
toContainerRelativeScrolled(rects) ==
    [k \in 1..Len(rects) |->
        [left   |-> rects[k].left - OriginLeft,
         top    |-> rects[k].top - OriginTop + scrollTop,
         width  |-> rects[k].width,
         height |-> rects[k].height]]

toContainerRelative(rects) ==
    [k \in 1..Len(rects) |->
        [left   |-> rects[k].left - OriginLeft,
         top    |-> rects[k].top - OriginTop,
         width  |-> rects[k].width,
         height |-> rects[k].height]]

\* variant: resolution is not guarded, one throwing anchor ends the batch
calculateAllUncaught(highlightData) ==
    IF \E k \in 1..Len(highlightData) : toRangeThrows(highlightData[k].anchor)
    THEN <<>>
    ELSE [k \in 1..Len(highlightData) |->
            LET anchor         == highlightData[k].anchor
                result         == getRectsForAnchor(anchor)
                containerRects == toContainerRelative(result.rects)
                updatedExact   == IF result.foundText # NoText
                                     /\ result.foundText # <<>>
                                     /\ result.foundText # anchor.exact
                                  THEN result.foundText
                                  ELSE NoText
            IN  [id           |-> highlightData[k].id,
                 rects        |-> containerRects,
                 isValid      |-> Len(containerRects) > 0,
                 updatedExact |-> updatedExact]]

\* variant: the found text is reported without comparing it with exact
calculateAllAlwaysReports(highlightData) ==
    [k \in 1..Len(highlightData) |->
        LET anchor         == highlightData[k].anchor
            result         == getRectsForAnchor(anchor)
            containerRects == toContainerRelative(result.rects)
            updatedExact   == IF result.foundText # NoText
                                 /\ result.foundText # <<>>
                              THEN result.foundText
                              ELSE NoText
        IN  [id           |-> highlightData[k].id,
             rects        |-> containerRects,
             isValid      |-> Len(containerRects) > 0,
             updatedExact |-> updatedExact]]

calculateAll(highlightData) ==
    [k \in 1..Len(highlightData) |->
        LET anchor         == highlightData[k].anchor
            result         == getRectsForAnchor(anchor)
            containerRects == toContainerRelative(result.rects)
            updatedExact   == IF result.foundText # NoText
                                 /\ result.foundText # <<>>
                                 /\ result.foundText # anchor.exact
                              THEN result.foundText
                              ELSE NoText
        IN  [id           |-> highlightData[k].id,
             rects        |-> containerRects,
             isValid      |-> Len(containerRects) > 0,
             updatedExact |-> updatedExact]]

\* ----------------------------------------------- HighlightOverlayManager
\* the background colours of an overlay element: as created, and hovered
Plain == "rgba(255, 243, 205, 0.7)"

Emphasis == "rgba(255, 230, 156, 0.9)"

\* The manager's state is passed as a record m: highlights (tracked
\* anchors), overlays (id -> elements), children (of the overlay container),
\* created (the elements made so far by the running operation) and inline
\* (the overlay elements that are children of the editable element).
Mgr == [highlights |-> ovHighlights, overlays |-> overlays,
        children |-> children, created |-> {}, inline |-> editorChildren]

\* the elements that exist: attached to the container or held in the map
LiveEls(m) ==
    {m.children[i].el : i \in 1..Len(m.children)}
        \cup {m.inline[i].el : i \in 1..Len(m.inline)}
        \cup UNION {SeqRange(m.overlays[id]) : id \in DOMAIN m.overlays}

\* document.createElement: an element distinct from every existing one
createElement(m) ==
    CHOOSE n \in 1..(Cardinality(LiveEls(m)) + 1) :
        n \notin LiveEls(m) /\ \A k \in 1..(n - 1) : k \in LiveEls(m)

\* variant: the map entry is dropped, the elements stay in the container
clearOverlayElementsNoRemove(m, id) ==
    IF id \in DOMAIN m.overlays
    THEN [m EXCEPT
            !.overlays = [x \in (DOMAIN m.overlays) \ {id} |-> m.overlays[x]]]
    ELSE m

clearOverlayElements(m, id) ==
    IF id \in DOMAIN m.overlays
    THEN [m EXCEPT
            !.children = SelectSeq(m.children,
                            LAMBDA c : c.el \notin SeqRange(m.overlays[id])),
            !.inline   = SelectSeq(m.inline,
                            LAMBDA c : c.el \notin SeqRange(m.overlays[id])),
            !.overlays = [x \in (DOMAIN m.overlays) \ {id} |-> m.overlays[x]],
            !.created  = m.created \ SeqRange(m.overlays[id])]
    ELSE m

RECURSIVE appendOverlaysInline(_, _, _, _, _)
\* variant: the elements are inserted into the editable element, as inline
\* markup within the text would be
appendOverlaysInline(m, id, rects, k, elements) ==
    IF k > Len(rects)
    THEN [m EXCEPT !.overlays = [x \in (DOMAIN m.overlays) \cup {id} |->
                                    IF x = id THEN elements ELSE m.overlays[x]]]
    ELSE LET overlay == createElement(m)
         IN  appendOverlaysInline(
                [m EXCEPT !.inline = Append(m.inline,
                                [el |-> overlay, id |-> id, rect |-> rects[k],
                                 backgroundColor |-> Plain]),
                          !.created = m.created \cup {overlay}],
                id, rects, k + 1, Append(elements, overlay))

RECURSIVE appendOverlays(_, _, _, _, _)
\* the loop of updateOverlayElements over rects, from index k; elements that
\* are created but not yet recorded are kept apart from the existing ones
appendOverlays(m, id, rects, k, elements) ==
    IF k > Len(rects)
    THEN [m EXCEPT !.overlays = [x \in (DOMAIN m.overlays) \cup {id} |->
                                    IF x = id THEN elements ELSE m.overlays[x]]]
    ELSE LET overlay == createElement(m)
         IN  appendOverlays(
                [m EXCEPT !.children = Append(m.children,
                                [el |-> overlay, id |-> id, rect |-> rects[k],
                                 backgroundColor |-> Plain]),
                          !.created = m.created \cup {overlay}],
                id, rects, k + 1, Append(elements, overlay))

\* variant: the new elements are added to those already drawn
updateOverlayElementsNoClear(m, id, rects) ==
    IF Len(rects) = 0
    THEN clearOverlayElements(m, id)
    ELSE appendOverlays(m, id, rects, 1, <<>>)

\* variant: an empty result returns before the old elements are cleared
updateOverlayElementsKeepsStale(m, id, rects) ==
    IF Len(rects) = 0
    THEN m
    ELSE appendOverlays(clearOverlayElements(m, id), id, rects, 1, <<>>)

updateOverlayElements(m, id, rects) ==
    LET cleared == clearOverlayElements(m, id)
    IN  IF Len(rects) = 0
        THEN cleared
        ELSE appendOverlays(cleared, id, rects, 1, <<>>)

\* variant: the viewport rectangles are used as they are
renderHighlightViewport(m, id, anchor) ==
    updateOverlayElements(m, id, getRectsForAnchor(anchor).rects)

renderHighlight(m, id, anchor) ==
    LET rects          == getRectsForAnchor(anchor).rects
        containerRects == toContainerRelative(rects)
    IN  updateOverlayElements(m, id, containerRects)

addHighlight(m, id, anchor) ==
    renderHighlight([m EXCEPT !.highlights =
                        MapSet(m.highlights, [id |-> id, anchor |-> anchor])],
                    id, anchor)

\* variant: the elements are cleared, the highlight stays tracked
removeHighlightKeepsTracked(m, id) == clearOverlayElements(m, id)

removeHighlight(m, id) ==
    clearOverlayElements([m EXCEPT !.highlights = MapDelete(m.highlights, id)], id)

\* clear that empties the map of highlights only
clearTrackedOnly(m) ==
    [m EXCEPT !.highlights = <<>>]

clear(m) ==
    [m EXCEPT !.highlights = <<>>, !.children = <<>>, !.overlays = <<>>,
              !.created = {}]

RECURSIVE applyResults(_, _, _)
\* the loop of recalculateAll over the results, from index k
applyResults(m, results, k) ==
    IF k > Len(results)
    THEN m
    ELSE applyResults(updateOverlayElements(m, results[k].id, results[k].rects),
                      results, k + 1)

\* variant: only highlights that are drawn at the moment are recalculated
recalculateAllVisibleOnly(m) ==
    LET drawn         == SelectSeq(m.highlights,
                            LAMBDA h : h.id \in DOMAIN m.overlays)
        highlightData == [k \in 1..Len(drawn) |->
                            [id |-> drawn[k].id, anchor |-> drawn[k].anchor]]
        results       == calculateAll(highlightData)
    IN  applyResults(m, results, 1)

\* variant: the pass writes the found text into the anchors it tracks
recalculateAllWritesBack(m) ==
    LET highlightData == [k \in 1..Len(m.highlights) |->
                            [id |-> m.highlights[k].id,
                             anchor |-> m.highlights[k].anchor]]
        results       == calculateAll(highlightData)
        corrected     == [k \in 1..Len(m.highlights) |->
                            IF results[k].updatedExact # NoText
                            THEN [m.highlights[k] EXCEPT
                                    !.anchor.exact = results[k].updatedExact]
                            ELSE m.highlights[k]]
    IN  applyResults([m EXCEPT !.highlights = corrected], results, 1)

recalculateAll(m) ==
    LET highlightData == [k \in 1..Len(m.highlights) |->
                            [id |-> m.highlights[k].id,
                             anchor |-> m.highlights[k].anchor]]
        results       == calculateAll(highlightData)
    IN  applyResults(m, results, 1)

\* updateOverlayElements when document.createElement throws for the first
\* rectangle: the old elements are cleared, nothing is appended or recorded
updateOverlayElementsThrows(m, id, rects) == clearOverlayElements(m, id)

RECURSIVE applyResultsUntilThrow(_, _, _, _)
\* the loop of recalculateAll when element creation throws for highlight f:
\* nothing catches the exception, so the loop ends there
applyResultsUntilThrow(m, results, k, f) ==
    IF k > Len(results)
    THEN [mgr |-> m, threw |-> FALSE]
    ELSE IF results[k].id = f /\ Len(results[k].rects) > 0
         THEN [mgr   |-> updateOverlayElementsThrows(m, f, results[k].rects),
               threw |-> TRUE]
         ELSE applyResultsUntilThrow(
                updateOverlayElements(m, results[k].id, results[k].rects),
                results, k + 1, f)

\* recalculateAll in which element creation throws for highlight f
recalculateAllThrows(m, f) ==
    LET highlightData == [k \in 1..Len(m.highlights) |->
                            [id |-> m.highlights[k].id,
                             anchor |-> m.highlights[k].anchor]]
        results       == calculateAll(highlightData)
    IN  applyResultsUntilThrow(m, results, 1, f)

RECURSIVE addAll(_, _, _)
\* the loop of loadHighlights over the given highlights, from index k
addAll(m, hs, k) ==
    IF k > Len(hs)
    THEN m
    ELSE addAll(addHighlight(m, hs[k].id, hs[k].anchor), hs, k + 1)

\* variant: the working set is not cleared first
loadHighlightsNoClear(m, hs) == addAll(m, hs, 1)

loadHighlights(m, hs) == addAll(clear(m), hs, 1)

\* variant: the pending flag is not consulted
scheduleRecalculationUnguarded ==
    [pendingRecalc |-> TRUE, rafQueue |-> rafQueue + 1]

\* the state of the pending flag and of the frame queue after the call
scheduleRecalculation ==
    IF pendingRecalc
    THEN [pendingRecalc |-> TRUE, rafQueue |-> rafQueue]
    ELSE [pendingRecalc |-> TRUE, rafQueue |-> rafQueue + 1]

\* variant: the callback leaves the pending flag set
frameCallbackKeepsFlag(st) ==
    [mgr |-> recalculateAll(st.mgr), pendingRecalc |-> st.pendingRecalc]

\* the callback given to requestAnimationFrame, on st = [mgr, pendingRecalc]
frameCallback(st) ==
    [mgr |-> recalculateAll(st.mgr), pendingRecalc |-> FALSE]

\* the callback around a pass that ended as out = [mgr, threw]
frameCallbackOutcome(st, out) ==
    [mgr           |-> out.mgr,
     pendingRecalc |-> IF out.threw THEN st.pendingRecalc ELSE FALSE,
     threw         |-> out.threw]

\* the callback when its pass throws for highlight f: the assignment to
\* pendingRecalc after the call is not reached
frameCallbackThrows(st, f) ==
    frameCallbackOutcome(st, recalculateAllThrows(st.mgr, f))

RECURSIVE runFrameCallbacks(_, _)
\* the browser runs the n callbacks registered for this frame
runFrameCallbacks(st, n) ==
    IF n = 0 THEN st ELSE runFrameCallbacks(frameCallback(st), n - 1)

\* the click listener of an overlay element: the handler set with
\* setClickHandler is called with the element's highlight id
\* the hover listeners of an overlay element
mouseenter(child) == [child EXCEPT !.backgroundColor = Emphasis]

mouseleave(child) == [child EXCEPT !.backgroundColor = Plain]

clickOverlay(child) == {[type |-> "click", id |-> child.id, newExact |-> NoText]}

\* ------------------------------------------------------- EditorController
NoThread == "none"

\* the handler passed to setUpdateHandler: the stored copy is corrected
\* first, the listener is notified afterwards
UpdateHandler(event) ==
    [highlights |->
        [i \in 1..Len(highlights) |->
            IF highlights[i].id = event.highlightId
            THEN [highlights[i] EXCEPT !.anchor.exact = event.newExact]
            ELSE highlights[i]],
     emitted |-> {[type |-> "highlightUpdated", id |-> event.highlightId,
                   newExact |-> event.newExact]}]

NoSelection == [kind |-> "none", start |-> 0, end |-> 0]

\* calculateAll has not been called
NoCalc == [highlights |-> <<>>, results |-> <<>>]

ForeignSelection == [kind |-> "outside", start |-> 0, end |-> 0]

\* window.getSelection(): none, a range outside the editor, or a range of
\* the editor's text (collapsed when start = end)
Selections ==
    {NoSelection, ForeignSelection}
        \cup UNION {{[kind |-> "editor", start |-> s, end |-> e] :
                        e \in s..Len(doc)} : s \in 0..Len(doc)}

\* text.trim() is empty
IsBlank(text) == \A i \in 1..Len(text) : text[i] = Space

\* variant: a selection of whitespace is accepted
getSelectionNoTrim(sel) == sel.kind = "editor" /\ sel.start < sel.end

\* EditorController.getSelection() returns a non-null result
getSelection(sel) ==
    /\ sel.kind = "editor"
    /\ sel.start < sel.end
    /\ ~IsBlank(Slice(doc, sel.start, sel.end))

\* getSelection() returns null
NoInfo == [text |-> NoText, start |-> -1, end |-> -1, live |-> FALSE]

\* variant: the live range of the selection is returned, not a clone
getSelectionInfoLive(sel) ==
    IF getSelection(sel)
    THEN [text |-> Slice(doc, sel.start, sel.end),
          start |-> sel.start, end |-> sel.end, live |-> TRUE]
    ELSE NoInfo

\* the SelectionInfo that getSelection() returns: the text and a clone of
\* the range (live: the range is the selection's own range object)
getSelectionInfo(sel) ==
    IF getSelection(sel)
    THEN [text |-> Slice(doc, sel.start, sel.end),
          start |-> sel.start, end |-> sel.end, live |-> FALSE]
    ELSE NoInfo

\* a SelectionInfo held by a listener after insertAtCursor has moved the
\* selection's range to sel: a clone stays, the live range itself moves
afterRangeMoved(info, sel) ==
    IF info.live /\ sel.kind = "editor"
    THEN [info EXCEPT !.start = sel.start, !.end = sel.end]
    ELSE info

\* createAnchorFromRange returns null
NoAnchor == [exact |-> <<>>, prefix |-> <<>>, suffix |-> <<>>]

\* String.prototype.trim
Trim(text) ==
    IF IsBlank(text)
    THEN <<>>
    ELSE LET first == CHOOSE i \in 1..Len(text) :
                        text[i] # Space /\ \A j \in 1..(i - 1) : text[j] = Space
             last  == CHOOSE i \in 1..Len(text) :
                        text[i] # Space /\ \A j \in (i + 1)..Len(text) : text[j] = Space
         IN  SubSeq(text, first, last)

\* variant: the quote is stored without its leading and trailing spaces
createAnchorFromRangeTrimmed(sel) ==
    LET quote == fromRange(doc, sel.start, sel.end)
    IN  IF quote.exact # <<>>
        THEN [exact |-> Trim(quote.exact), prefix |-> quote.prefix, suffix |-> quote.suffix]
        ELSE NoAnchor

\* variant: the context of the quote is not stored
createAnchorFromRangeNoContext(sel) ==
    LET quote == fromRange(doc, sel.start, sel.end)
    IN  IF quote.exact # <<>>
        THEN [exact |-> quote.exact, prefix |-> <<>>, suffix |-> <<>>]
        ELSE NoAnchor

createAnchorFromRange(sel) ==
    LET quote == fromRange(doc, sel.start, sel.end)
    IN  IF quote.exact # <<>>
        THEN [exact |-> quote.exact, prefix |-> quote.prefix, suffix |-> quote.suffix]
        ELSE NoAnchor

\* variant: the html is inserted at the range, the selected text stays
insertAtCursorKeepsSelected(sel, html) ==
    IF sel.kind = "editor"
    THEN Slice(doc, 0, sel.start) \o html \o Slice(doc, sel.start, Len(doc))
    ELSE doc \o html

\* the editor's text after insertAtCursor(html) with selection sel: appended
\* without a selection in the editor, else put in place of the selected text
insertAtCursor(sel, html) ==
    IF sel.kind = "editor"
    THEN Slice(doc, 0, sel.start) \o html \o Slice(doc, sel.end, Len(doc))
    ELSE doc \o html

\* ----------------------------------------------------------------- commands
MaxLine == 3

Slash == "/"

\* the commands of src/commands: name and requiresSelection
Commands == {[name |-> <<"a">>, requiresSelection |-> TRUE],
             [name |-> <<"b">>, requiresSelection |-> FALSE]}

\* the text of a line of the side panel's editor up to the caret
Lines == UNION {[1..n -> Chars \cup {Space, Slash}] : n \in 0..MaxLine}

\* detectCommand returns null
NoName == <<"\\null">>

RECURSIVE Word(_)
\* the longest run of word characters at the start of text: /^(\w+)/
Word(text) ==
    IF text # <<>> /\ Head(text) \in Chars
    THEN <<Head(text)>> \o Word(Tail(text))
    ELSE <<>>

detectCommand(lineText) ==
    LET trimmed == Trim(lineText)
    IN  IF trimmed # <<>> /\ Head(trimmed) = Slash /\ Word(Tail(trimmed)) # <<>>
        THEN Word(Tail(trimmed))
        ELSE NoName

\* window.getSelection().toString()
SelectedText(sel) ==
    IF sel.kind = "editor" THEN Slice(doc, sel.start, sel.end) ELSE <<>>

\* the command palette's executeCommand(cmd): the messages it sends
paletteExecuteCommand(cmd, sel) ==
    LET text == Trim(SelectedText(sel))
    IN  IF cmd.requiresSelection /\ text = <<>>
        THEN {}
        ELSE {[type |-> "executeCommand", command |-> cmd.name,
               selection |-> text]}

\* the side panel's executeCommand(command): the messages it sends
sidePanelExecuteCommand(command, sel) ==
    IF sel.kind = "none"
    THEN {}
    ELSE {[type |-> "executeCommand", command |-> command, selection |-> <<>>]}

\* loadCommand throws: no command of that name
NoCommand == [name |-> NoName, requiresSelection |-> FALSE]

loadCommand(name) ==
    IF \E c \in Commands : c.name = name
    THEN CHOOSE c \in Commands : c.name = name
    ELSE NoCommand

\* the service worker's handleExecuteCommand: the command whose prompt is
\* sent to the model, whatever its requiresSelection and the selection
handleExecuteCommand(message) ==
    LET cmd == loadCommand(message.command)
    IN  [success |-> cmd # NoCommand, command |-> cmd,
         selection |-> message.selection]

\* no anchor has been resolved on its own
NoResolution ==
    [anchor |-> NoAnchor, where |-> Within, selected |-> NoText,
     find |-> NoRange, get |-> NoRange,
     rects |-> [rects |-> <<>>, foundText |-> NoText], updatedExact |-> NoText]

\* the anchor resolved under condition c by findRangeFromAnchor,
\* getRangeFromAnchor, getRectsForAnchor and a calculateAll of it alone
resolveAll(anchor, c, selected) ==
    [anchor       |-> anchor,
     where        |-> c,
     selected     |-> selected,
     find         |-> findRangeFromAnchor(anchor, c),
     get          |-> getRangeFromAnchor(anchor, c),
     rects        |-> getRectsForAnchorIn(anchor, c),
     updatedExact |-> IF c = Within
                      THEN calculateAll(<<[id |-> "h1", anchor |-> anchor]>>)[1].updatedExact
                      ELSE NoText]

\* variant: the stored highlight is replaced by the updates
updateHighlightReplaces(map, id, updates) ==
    [i \in 1..Len(map) |->
        IF map[i].id = id
        THEN [f \in DOMAIN map[i] |->
                IF f \in DOMAIN updates
                THEN updates[f]
                ELSE IF f = "id" THEN id ELSE NoAnchor]
        ELSE map[i]]

\* Object.assign(highlight, updates) on the highlight stored under id, if any
updateHighlight(map, id, updates) ==
    [i \in 1..Len(map) |->
        IF map[i].id = id
        THEN [f \in DOMAIN map[i] |->
                IF f \in DOMAIN updates THEN updates[f] ELSE map[i][f]]
        ELSE map[i]]

RECURSIVE setAll(_, _, _)
\* the loop of EditorController.loadHighlights, from index k
setAll(map, hs, k) ==
    IF k > Len(hs) THEN map ELSE setAll(MapSet(map, hs[k]), hs, k + 1)

\* ---------------------------------------------------------------- inputs
Anchor(exact, prefix, suffix) ==
    [exact |-> exact, prefix |-> prefix, suffix |-> suffix]

Sample1 == [id |-> "h1", anchor |-> Anchor(<<"a", "b">>, <<>>, <<>>), thread |-> NoThread]

Sample2 == [id |-> "h2", anchor |-> Anchor(<<"b">>, <<"a">>, <<>>), thread |-> NoThread]

Sample3 == [id |-> "h1", anchor |-> Anchor(<<"b">>, <<>>, <<"a">>), thread |-> NoThread]

SampleHighlights == {Sample1, Sample2, Sample3}

SampleLists == {<<>>, <<Sample1>>, <<Sample1, Sample2>>, <<Sample2, Sample3>>,
                <<Sample1, Sample3>>}

SampleContents == {<<>>, <<"a", "b">>}

Snippets == {<<c>> : c \in Chars}

Threads == {"t1", "t2"}

\* a stored anchor that has lost its exact
Damaged == [exact |-> NoText, prefix |-> <<>>, suffix |-> <<>>]

CalcItems ==
    {[id |-> h.id, anchor |-> h.anchor] : h \in SampleHighlights}
        \cup {[id |-> id, anchor |-> Damaged] : id \in Ids}

\* the anchors given to the resolution entry points
AnchorInputs ==
    {h.anchor : h \in SampleHighlights} \cup {Damaged}
        \cup {[exact |-> <<ch>>, prefix |-> <<>>, suffix |-> <<>>] : ch \in Chars}

\* the arguments of calculateAll: up to two highlights with distinct ids
CalcInputs ==
    {<<>>} \cup {<<x>> : x \in CalcItems}
           \cup {<<p[1], p[2]>> : p \in {q \in CalcItems \X CalcItems : q[1].id # q[2].id}}

\* the updates that callers pass to updateHighlight: thread data
Updates == {[thread |-> t] : t \in Threads}

\* an update that replaces the anchor of a stored highlight
AnchorUpdates == {[anchor |-> Sample3.anchor]}

\* ------------------------------------------------------ event listeners
EventTypes == {"contentChange", "selectionChange", "click", "highlightUpdated"}

\* the types with a call site that runs: the handler that calls
\* onHighlightUpdated is handed to setUpdateHandler, which the manager lacks
RaisedTypes == EventTypes \ {"highlightUpdated"}

Callbacks == {"cb1", "cb2"}

\* EditorController.events after construction: no listener for any type
NoListeners == [t \in EventTypes |-> <<>>]

\* variant: the callback is added to those already registered
onAdds(ls, type, cb) == [ls EXCEPT ![type] = Append(ls[type], cb)]

\* onContentChange / onSelectionChange / onHighlightClick /
\* onHighlightUpdated(cb): the slot of the type is assigned
on(ls, type, cb) == [ls EXCEPT ![type] = <<cb>>]

\* this.events.on...?.(...) for each event of ev: one call per callback held
calls(ev, ls) ==
    UNION {{[cb |-> ls[e.type][k], event |-> e, slot |-> k] :
                k \in 1..Len(ls[e.type])} : e \in ev}

\* ------------------------------------------------------ history variables
Unresolved(anchor) == Len(getRectsForAnchor(anchor).rects) = 0

UnresolvedIds(m) ==
    {m[i].id : i \in {k \in 1..Len(m) : Unresolved(m[k].anchor)}}

\* the results of a pass over m that carry updatedExact
Drifted(m) ==
    LET results == calculateAll(m)
    IN  {results[i] : i \in {k \in 1..Len(results) :
                                results[k].updatedExact # NoText}}

\* the operations that run recalculateAll
PassOps == {"frame", "recalculateAll"}

\* the history of an operation that may act outside the controller
HistOnly(op, ids, ev, np, os, rm) ==
    /\ lastOp' = [op |-> op, ids |-> ids]
    /\ served' = IF op = "frame" THEN requests ELSE 0
    /\ emitted' = ev
    /\ listeners' = listeners
    /\ called' = calls(ev, listeners)
    /\ passes' = np
    /\ orphanSeen' = os
    /\ removedIds' = rm
    /\ thrown' = FALSE
    /\ lastCalc' = lastCalc
    /\ repeated' = ((op \in PassOps /\ lastOp.op \in PassOps)
                     \/ (op = "destroy" /\ ~attached))
    /\ resolved' = resolved
    /\ delivered' = IF op = "select"
                    THEN getSelectionInfo(selection')
                    ELSE IF op = "insertAtCursor"
                         THEN afterRangeMoved(delivered, selection')
                         ELSE NoInfo

Hist(op, ids, ev, np, os, rm) ==
    /\ HistOnly(op, ids, ev, np, os, rm)
    /\ sent' = {}
    /\ UNCHANGED <<panel, palette, storage>>

SetMgr(m) ==
    /\ ovHighlights' = m.highlights
    /\ overlays' = m.overlays
    /\ children' = m.children
    /\ created' = m.created
    /\ editorChildren' = m.inline

\* a trigger calls scheduleRecalculation
Schedule ==
    /\ requests < MaxRequests
    /\ pendingRecalc' = scheduleRecalculation.pendingRecalc
    /\ rafQueue' = scheduleRecalculation.rafQueue
    /\ requests' = requests + 1
    /\ unserved' = TRUE
    /\ created' = {}

ContentChange == {[type |-> "contentChange", id |-> "-", newExact |-> NoText]}

SelectionChange == {[type |-> "selectionChange", id |-> "-", newExact |-> NoText]}

\* a collapsed selection in the editor's text
Caret(p) == [kind |-> "editor", start |-> p, end |-> p]

\* the selection after the editor's text was edited at offset p: a range in
\* the editor collapses to the caret, any other selection stays
AfterEdit(p) == IF selection.kind = "editor" THEN Caret(p) ELSE selection

\* ------------------------------------------------------------- side panel
Groups == {1, 2}

\* no highlight is selected
Null == "null"

\* currentGroupId and saveTimeout are null
NoGroup == 0

NoTimer == 0

\* the side panel after it has loaded the data of its tab group
PanelInit ==
    [currentGroupId      |-> 1,
     selectedHighlightId |-> Null,
     inFlight            |-> {},
     messages            |-> [t \in Threads |-> <<>>],
     currentData         |-> [content |-> <<>>, highlights |-> <<>>],
     saveTimeout         |-> NoTimer,
     timers              |-> {},
     writing             |-> {}]

MaxTimers == 3

MaxMessages == 2

\* window.setTimeout: the id of the new timer
setTimeout(p) ==
    CHOOSE n \in 1..(MaxTimers + 1) :
        /\ n \notin (p.timers \ {p.saveTimeout}) \cup p.writing
        /\ \A k \in 1..(n - 1) : k \in (p.timers \ {p.saveTimeout}) \cup p.writing

\* saveContent(): the data is taken from the editor, the timer that
\* saveTimeout names is cleared and a new one is set
saveContent(p, content, hs) ==
    IF p.currentGroupId = NoGroup
    THEN p
    ELSE [p EXCEPT !.currentData = [content |-> content,
                                    highlights |-> [i \in 1..Len(hs) |-> hs[i].id]],
                   !.timers = (@ \ {p.saveTimeout}) \cup {setTimeout(p)},
                   !.saveTimeout = setTimeout(p)]

\* chrome.storage.local: the key holds no value
Absent == <<>>

\* chrome.storage.local: the key holds value
Stored(value) == <<value>>

\* the timer callback up to its await: setSidepanelData is called with
\* currentData as it is now
saveTimerFires(p, st, n) ==
    [panel   |-> [p EXCEPT !.timers = @ \ {n}, !.writing = @ \cup {n}],
     storage |-> [st EXCEPT ![<<"sidepanel_data", p.currentGroupId>>] = Stored(p.currentData)]]

\* the timer callback after its await
saveTimerEnds(p, n) == [p EXCEPT !.writing = @ \ {n}, !.saveTimeout = NoTimer]

\* showThread(highlightId)
showThread(p, hs, highlightId) ==
    IF MapHas(hs, highlightId)
    THEN [p EXCEPT !.selectedHighlightId = highlightId]
    ELSE p

hideThread(p) == [p EXCEPT !.selectedHighlightId = Null]

\* generateId for a new thread: one that no message was put in yet
NewThread(p, hs) ==
    CHOOSE t \in Threads :
        p.messages[t] = <<>> /\ \A i \in 1..Len(hs) : hs[i].thread # t

\* the thread sendThreadMessage works on: the highlight's, or a new one
threadOf(p, hs, id) ==
    IF MapGet(hs, id).thread = NoThread THEN NewThread(p, hs) ELSE MapGet(hs, id).thread

\* the id that sendThreadMessage passes to updateHighlight once the reply
\* has arrived: selectedHighlightId as it is then
replySelected(p, request) == p.selectedHighlightId

\* -------------------------------------------------------- command palette
\* loadAllCommands(): the commands of src/commands with their descriptions,
\* in the order of the modules
loadAllCommands ==
    <<[name |-> <<"a">>, description |-> <<"a", "a">>, requiresSelection |-> TRUE],
      [name |-> <<"b">>, description |-> <<"b">>, requiresSelection |-> FALSE]>>

\* no command has been executed by the last event
NoneExecuted == <<>>

\* the module state of the palette before it is first shown; visible is the
\* absence of the class palette-hidden, executed the commands handed to
\* executeCommand by the last event. The text of the input element is not
\* kept: handleInput reads it from its event and no other handler reads it
PaletteInit ==
    [visible |-> FALSE, commands |-> <<>>,
     filteredCommands |-> <<>>, selectedIndex |-> 0, executed |-> NoneExecuted]

\* text.includes(query)
includes(text, query) ==
    \E p \in 0..(Len(text) - Len(query)) : Slice(text, p, p + Len(query)) = query

RECURSIVE filter(_, _)
\* commands.filter(cmd => cmd.name.includes(query) ||
\* cmd.description.includes(query)); the names and descriptions of the
\* model are in lower case already
filter(cmds, query) ==
    IF cmds = <<>>
    THEN <<>>
    ELSE (IF includes(Head(cmds).name, query) \/ includes(Head(cmds).description, query)
          THEN <<Head(cmds)>>
          ELSE <<>>) \o filter(Tail(cmds), query)

\* handleInput: the input element reads value
handleInput(pal, value) ==
    LET trimmed == Trim(value)
    IN  [pal EXCEPT !.filteredCommands =
                        IF trimmed # <<>> /\ Head(trimmed) = Slash
                        THEN filter(pal.commands, Tail(trimmed))
                        ELSE pal.commands,
                    !.selectedIndex = 0,
                    !.executed = NoneExecuted]

\* handleKeyDown, case 'ArrowDown'
arrowDown(pal) ==
    [pal EXCEPT !.selectedIndex =
                    Min(pal.selectedIndex + 1, Len(pal.filteredCommands) - 1),
                !.executed = NoneExecuted]

\* handleKeyDown, case 'ArrowUp'
arrowUp(pal) ==
    [pal EXCEPT !.selectedIndex = Max(pal.selectedIndex - 1, 0),
                !.executed = NoneExecuted]

\* filteredCommands[selectedIndex] is defined (indices of the code from 0)
selectedCommand(pal) ==
    IF pal.selectedIndex + 1 \in 1..Len(pal.filteredCommands)
    THEN <<pal.filteredCommands[pal.selectedIndex + 1]>>
    ELSE NoneExecuted

\* hidePalette
hidePalette(pal) ==
    [pal EXCEPT !.visible = FALSE, !.executed = NoneExecuted]

\* showPalette, with initCommandPalette when the palette is shown first
showPalette(pal) ==
    [pal EXCEPT !.visible = TRUE,
                !.commands = loadAllCommands,
                !.filteredCommands = loadAllCommands,
                !.selectedIndex = 0,
                !.executed = NoneExecuted]

\* handleKeyDown, case 'Enter': executeCommand hides the palette first
enter(pal) ==
    IF selectedCommand(pal) # NoneExecuted
    THEN [hidePalette(pal) EXCEPT !.executed = selectedCommand(pal)]
    ELSE [pal EXCEPT !.executed = NoneExecuted]

\* ---------------------------------------------------- chrome.storage.local
StorageKeys == {"sidebar_content", "sidepanel_data"} \X Groups

StorageInit == [k \in StorageKeys |-> Absent]

\* the text an earlier version of the extension has stored for a group
OldContent == <<"a">>

\* the storage as an earlier version has left it: sidebar_content_<id> for
\* some groups, no sidepanel_data_<id>
StoredBefore ==
    {[k \in StorageKeys |-> IF k[1] = "sidebar_content" /\ k[2] \in gs
                            THEN Stored(OldContent)
                            ELSE Absent] : gs \in SUBSET Groups}

\* deleteSidebarContent(groupId)
deleteSidebarContent(st, groupId) ==
    [st EXCEPT ![<<"sidebar_content", groupId>>] = Absent]

\* deleteSidepanelData(groupId); no listener or handler calls it
deleteSidepanelData(st, groupId) ==
    [st EXCEPT ![<<"sidepanel_data", groupId>>] = Absent]

\* the chrome.tabGroups.onRemoved listener of the service worker
onRemoved(st, groupId) == deleteSidebarContent(st, groupId)

\* loadContent() of the side panel opened on group groupId: the stored data,
\* or the old content taken over and stored, or empty data
loadContent(st, groupId) ==
    LET stored == st[<<"sidepanel_data", groupId>>]
        old    == st[<<"sidebar_content", groupId>>]
        taken  == stored = Absent /\ old # Absent /\ old # Stored(<<>>)
        data   == IF stored # Absent THEN stored[1]
                  ELSE IF taken
                       THEN [content |-> old[1], highlights |-> <<>>]
                       ELSE [content |-> <<>>, highlights |-> <<>>]
    IN  [panel   |-> [PanelInit EXCEPT !.currentGroupId = groupId,
                                       !.currentData = data],
         storage |-> IF taken
                     THEN [st EXCEPT ![<<"sidepanel_data", groupId>>] = Stored(data)]
                     ELSE st]

\* ------------------------------------------------------------------- Init
\* the state after construction, but for the editor's content, the side
\* panel's module state and the storage
InitController ==
    /\ cols \in {NarrowCols, WideCols}
    /\ scrollTop = 0
    /\ fontsPending = TRUE
    /\ highlights = <<>>
    /\ ovHighlights = <<>>
    /\ overlays = <<>>
    /\ children = <<>>
    /\ attached = TRUE
    /\ pendingRecalc = FALSE
    /\ rafQueue = 0
    /\ lastOp = [op |-> "constructor", ids |-> {}]
    /\ served = 0
    /\ emitted = {}
    /\ passes = 0
    /\ created = {}
    /\ requests = 0
    /\ unserved = FALSE
    /\ orphanSeen = {}
    /\ removedIds = {}
    /\ selection = NoSelection
    /\ editorChildren = <<>>
    /\ thrown = FALSE
    /\ repeated = FALSE
    /\ resolved = NoResolution
    /\ delivered = NoInfo
    /\ listeners = NoListeners
    /\ called = {}
    /\ sent = {}
    /\ palette = PaletteInit
    /\ lastCalc = NoCalc

\* the side panel has opened on a group for which nothing is stored
InitRest ==
    /\ InitController
    /\ panel = PanelInit
    /\ storage = StorageInit

\* the controller is constructed on an empty editor
Init == doc = <<>> /\ InitRest

\* the controller is constructed on an editor that holds some text
InitWithContent == doc \in Docs /\ InitRest

\* the side panel has opened on group 1 with the storage an earlier version
\* of the extension has left
InitStored ==
    \E before \in StoredBefore :
        /\ InitController
        /\ panel = loadContent(before, 1).panel
        /\ storage = loadContent(before, 1).storage
        /\ doc = loadContent(before, 1).panel.currentData.content

\* ---------------------------------------------------------------- actions
\* the user types or deletes one character; the 'input' listener runs
Typing ==
    /\ \/ \E p \in 0..Len(doc), c \in Chars :
            /\ Len(doc) < MaxDoc
            /\ doc' = Slice(doc, 0, p) \o <<c>> \o Slice(doc, p, Len(doc))
            /\ selection' = AfterEdit(p + 1)
       \/ \E p \in 1..Len(doc) :
            /\ doc' = Slice(doc, 0, p - 1) \o Slice(doc, p, Len(doc))
            /\ selection' = AfterEdit(p - 1)
    /\ Schedule
    /\ UNCHANGED <<cols, scrollTop, fontsPending, highlights, ovHighlights,
                   overlays, children, attached, editorChildren>>

Input ==
    /\ Typing
    /\ Hist("input", {}, ContentChange, 0, orphanSeen, removedIds)

\* the user changes the selection; the 'selectionchange' listener runs and
\* passes getSelection() to the onSelectionChange listener
Select ==
    /\ \E sel \in Selections : sel # selection /\ selection' = sel
    /\ Hist("select", {}, SelectionChange, 0, orphanSeen, removedIds)
    /\ created' = {}
    /\ UNCHANGED <<doc, cols, scrollTop, fontsPending, highlights, ovHighlights,
                   overlays, children, attached, pendingRecalc, rafQueue,
                   requests, unserved, editorChildren>>

\* the container scrolls; the 'scroll' listener runs
Scroll ==
    /\ \E y \in 0..MaxScroll : y # scrollTop /\ scrollTop' = y
    /\ Schedule
    /\ Hist("scroll", {}, {}, 0, orphanSeen, removedIds)
    /\ UNCHANGED <<doc, cols, fontsPending, highlights, ovHighlights,
                   overlays, children, attached, selection, editorChildren>>

\* the container is resized; the ResizeObserver callback runs
Resize ==
    /\ \E w \in {NarrowCols, WideCols} : w # cols /\ cols' = w
    /\ Schedule
    /\ Hist("resize", {}, {}, 0, orphanSeen, removedIds)
    /\ UNCHANGED <<doc, scrollTop, fontsPending, highlights, ovHighlights,
                   overlays, children, attached, selection, editorChildren>>

\* document.fonts.ready resolves; its continuation runs
FontsReady ==
    /\ fontsPending
    /\ fontsPending' = FALSE
    /\ Schedule
    /\ Hist("fontsReady", {}, {}, 0, orphanSeen, removedIds)
    /\ UNCHANGED <<doc, cols, scrollTop, highlights, ovHighlights,
                   overlays, children, attached, selection, editorChildren>>

SetContent ==
    /\ attached
    /\ \E html \in SampleContents : doc' = html
    /\ selection' = AfterEdit(0)
    /\ Schedule
    /\ Hist("setContent", {}, {}, 0, orphanSeen, removedIds)
    /\ UNCHANGED <<cols, scrollTop, fontsPending, highlights, ovHighlights,
                   overlays, children, attached, editorChildren>>

\* EditorController.insertAtCursor(html) with the selection that
\* window.getSelection() holds
InsertAtCursor ==
    /\ attached
    /\ \E html \in Snippets :
        /\ doc' = insertAtCursor(selection, html)
        /\ Len(doc') <= MaxDoc
        /\ selection' = AfterEdit(selection.start + Len(html))
    /\ Schedule
    /\ Hist("insertAtCursor", {}, {}, 0, orphanSeen, removedIds)
    /\ UNCHANGED <<cols, scrollTop, fontsPending, highlights, ovHighlights,
                   overlays, children, attached, editorChildren>>

\* variant: whatever range of the editor is selected is stored unchecked
AddHighlightFromSelectionUnchecked ==
    /\ attached
    /\ selection.kind = "editor"
    /\ \E id \in GeneratedIds \ (MapKeys(highlights) \cup MapKeys(ovHighlights)) :
        LET anchor == fromRange(doc, selection.start, selection.end)
        IN  /\ highlights' = MapSet(highlights,
                    [id |-> id, anchor |-> anchor, thread |-> NoThread])
            /\ SetMgr(addHighlight(Mgr, id, anchor))
            /\ selection' = NoSelection
            /\ Hist("addHighlightFromSelection", {id}, {}, 0,
                    (orphanSeen \ {id}) \cup
                        (IF Unresolved(anchor) THEN {id} ELSE {}),
                    removedIds \ {id})
    /\ UNCHANGED <<doc, cols, scrollTop, fontsPending, attached,
                   pendingRecalc, rafQueue, requests, unserved>>

AddHighlightFromSelection ==
    /\ attached
    /\ LET anchor == createAnchorFromRange(selection)
       IN  IF getSelection(selection) /\ anchor # NoAnchor
           THEN \E id \in GeneratedIds \ (MapKeys(highlights) \cup MapKeys(ovHighlights)) :
                    /\ highlights' = MapSet(highlights,
                            [id |-> id, anchor |-> anchor, thread |-> NoThread])
                    /\ SetMgr(addHighlight(Mgr, id, anchor))
                    /\ selection' = NoSelection
                    /\ Hist("addHighlightFromSelection", {id}, {}, 0,
                            (orphanSeen \ {id}) \cup
                                (IF Unresolved(anchor) THEN {id} ELSE {}),
                            removedIds \ {id})
           ELSE /\ Hist("addHighlightFromSelection", {}, {}, 0, orphanSeen, removedIds)
                /\ created' = {}
                /\ UNCHANGED <<highlights, ovHighlights, overlays, children,
                               editorChildren, selection>>
    /\ UNCHANGED <<doc, cols, scrollTop, fontsPending, attached,
                   pendingRecalc, rafQueue, requests, unserved>>

AddHighlight ==
    /\ attached
    /\ \E h \in SampleHighlights :
        /\ highlights' = MapSet(highlights, h)
        /\ SetMgr(addHighlight(Mgr, h.id, h.anchor))
        /\ Hist("addHighlight", {h.id}, {}, 0,
                (orphanSeen \ {h.id}) \cup
                    (IF Unresolved(h.anchor) THEN {h.id} ELSE {}),
                removedIds \ {h.id})
    /\ UNCHANGED <<doc, cols, scrollTop, fontsPending, attached,
                   pendingRecalc, rafQueue, requests, unserved, selection>>

RemoveHighlight ==
    /\ attached
    /\ \E id \in Ids :
        /\ highlights' = MapDelete(highlights, id)
        /\ SetMgr(removeHighlight(Mgr, id))
        /\ Hist("removeHighlight", {id}, {}, 0, orphanSeen \ {id},
                removedIds \cup {id})
    /\ UNCHANGED <<doc, cols, scrollTop, fontsPending, attached,
                   pendingRecalc, rafQueue, requests, unserved, selection>>

LoadHighlights ==
    /\ attached
    /\ \E hs \in SampleLists :
        /\ highlights' = setAll(<<>>, hs, 1)
        /\ SetMgr(loadHighlights(Mgr, hs))
        /\ Hist("loadHighlights", {hs[i].id : i \in 1..Len(hs)}, {}, 0,
                UnresolvedIds(loadHighlights(Mgr, hs).highlights),
                removedIds \ {hs[i].id : i \in 1..Len(hs)})
    /\ UNCHANGED <<doc, cols, scrollTop, fontsPending, attached,
                   pendingRecalc, rafQueue, requests, unserved, selection>>

\* EditorController.updateHighlight with one of the given updates
UpdateWith(given) ==
    /\ attached
    /\ \E id \in Ids, updates \in given :
        /\ highlights' = updateHighlight(highlights, id, updates)
        /\ Hist("updateHighlight", {id}, {}, 0, orphanSeen, removedIds)
    /\ created' = {}
    /\ UNCHANGED <<doc, cols, scrollTop, fontsPending, ovHighlights, overlays,
                   children, attached, pendingRecalc, rafQueue, requests,
                   unserved, selection, editorChildren>>

UpdateHighlight == UpdateWith(Updates)

\* updateHighlight(id, {anchor: ...})
UpdateAnchor == UpdateWith(AnchorUpdates)

\* EditorController.recalculateHighlights: a direct recalculateAll call
RecalculateHighlights ==
    /\ attached
    /\ SetMgr(recalculateAll(Mgr))
    /\ Hist("recalculateAll", {}, {}, 1,
            orphanSeen \cup UnresolvedIds(ovHighlights), removedIds)
    /\ unserved' = FALSE
    /\ UNCHANGED <<doc, cols, scrollTop, fontsPending, highlights, attached,
                   pendingRecalc, rafQueue, requests, selection>>

\* the next animation frame: the browser runs every registered callback
AnimationFrame ==
    /\ rafQueue > 0
    /\ LET st == runFrameCallbacks(
                    [mgr |-> Mgr, pendingRecalc |-> pendingRecalc], rafQueue)
       IN  /\ SetMgr(st.mgr)
           /\ pendingRecalc' = st.pendingRecalc
    /\ rafQueue' = 0
    /\ requests' = 0
    /\ unserved' = FALSE
    /\ Hist("frame", {}, {}, rafQueue,
            orphanSeen \cup UnresolvedIds(ovHighlights), removedIds)
    /\ UNCHANGED <<doc, cols, scrollTop, fontsPending, highlights, attached,
                   selection>>

\* recalculateHighlights during which creating the elements of highlight f
\* throws; the exception reaches the caller
RecalculateHighlightsThrows ==
    /\ attached
    /\ \E f \in MapKeys(ovHighlights) :
        \E out \in {recalculateAllThrows(Mgr, f)} :
            /\ out.threw
            /\ SetMgr(out.mgr)
            /\ UNCHANGED <<panel, palette, storage>>
            /\ lastOp' = [op |-> "recalculateAll", ids |-> {f}]
    /\ thrown' = TRUE
    /\ delivered' = NoInfo
    /\ repeated' = (lastOp.op \in PassOps)
    /\ unserved' = FALSE
    /\ passes' = 1
    /\ served' = 0
    /\ emitted' = {}
    /\ called' = {}
    /\ sent' = {}
    /\ orphanSeen' = orphanSeen \cup UnresolvedIds(ovHighlights)
    /\ UNCHANGED <<doc, cols, scrollTop, fontsPending, highlights, attached,
                   pendingRecalc, rafQueue, requests, removedIds, selection,
                   lastCalc, resolved, listeners>>

\* an animation frame whose callback throws while creating the elements of
\* highlight f; the exception reaches the browser
AnimationFrameThrows ==
    /\ rafQueue = 1
    /\ \E f \in MapKeys(ovHighlights) :
        \E st \in {frameCallbackThrows(
                        [mgr |-> Mgr, pendingRecalc |-> pendingRecalc], f)} :
            /\ st.threw
            /\ SetMgr(st.mgr)
            /\ pendingRecalc' = st.pendingRecalc
            /\ UNCHANGED <<panel, palette, storage>>
            /\ lastOp' = [op |-> "frame", ids |-> {f}]
    /\ thrown' = TRUE
    /\ delivered' = NoInfo
    /\ repeated' = (lastOp.op \in PassOps)
    /\ rafQueue' = 0
    /\ requests' = 0
    /\ unserved' = FALSE
    /\ passes' = 1
    /\ served' = requests
    /\ emitted' = {}
    /\ called' = {}
    /\ sent' = {}
    /\ orphanSeen' = orphanSeen \cup UnresolvedIds(ovHighlights)
    /\ UNCHANGED <<doc, cols, scrollTop, fontsPending, highlights, attached,
                   removedIds, selection, lastCalc, resolved, listeners>>

\* EditorController.destroy -> HighlightOverlayManager.destroy
Destroy ==
    /\ SetMgr(clear(Mgr))
    /\ attached' = FALSE
    /\ Hist("destroy", {}, {}, 0, {}, removedIds)
    /\ UNCHANGED <<doc, cols, scrollTop, fontsPending, highlights,
                   pendingRecalc, rafQueue, requests, unserved, selection>>

\* the user clicks an overlay element that is on screen
ClickOverlay ==
    /\ attached
    /\ \E i \in 1..Len(children) :
        Hist("click", {children[i].id}, clickOverlay(children[i]), 0,
             orphanSeen, removedIds)
    /\ created' = {}
    /\ UNCHANGED <<doc, cols, scrollTop, fontsPending, highlights, ovHighlights,
                   overlays, children, attached, pendingRecalc, rafQueue,
                   requests, unserved, selection, editorChildren>>

\* the pointer enters an overlay element; it is over one element at a time
MouseEnter ==
    /\ attached
    /\ \A k \in 1..Len(children) : children[k].backgroundColor = Plain
    /\ \E i \in 1..Len(children) :
        /\ children' = [children EXCEPT ![i] = mouseenter(@)]
        /\ Hist("mouseenter", {children[i].id}, {}, 0, orphanSeen, removedIds)
    /\ created' = {}
    /\ UNCHANGED <<doc, cols, scrollTop, fontsPending, highlights, ovHighlights,
                   overlays, attached, pendingRecalc, rafQueue, requests,
                   unserved, selection, editorChildren>>

\* the pointer leaves the overlay element it is over
MouseLeave ==
    /\ attached
    /\ \E i \in 1..Len(children) :
        /\ children[i].backgroundColor = Emphasis
        /\ children' = [children EXCEPT ![i] = mouseleave(@)]
        /\ Hist("mouseleave", {children[i].id}, {}, 0, orphanSeen, removedIds)
    /\ created' = {}
    /\ UNCHANGED <<doc, cols, scrollTop, fontsPending, highlights, ovHighlights,
                   overlays, attached, pendingRecalc, rafQueue, requests,
                   unserved, selection, editorChildren>>

\* what an operation outside the controller leaves of the history
OutsideWith(op, ids) ==
    /\ lastOp' = [op |-> op, ids |-> ids]
    /\ emitted' = {}
    /\ called' = {}
    /\ thrown' = FALSE
    /\ delivered' = NoInfo
    /\ repeated' = FALSE
    /\ passes' = 0
    /\ served' = 0
    /\ created' = {}
    /\ UNCHANGED <<doc, cols, scrollTop, fontsPending, highlights, ovHighlights,
                   overlays, children, attached, pendingRecalc, rafQueue,
                   requests, unserved, orphanSeen, removedIds,
                   editorChildren, lastCalc, resolved, listeners>>

OutsideOnly(op) == OutsideWith(op, {})

Outside(op) ==
    /\ OutsideOnly(op)
    /\ UNCHANGED <<panel, palette, storage>>

\* a command is started from the command palette, by Enter or by a click
PaletteExecute ==
    /\ \E cmd \in Commands : sent' = paletteExecuteCommand(cmd, selection)
    /\ selection' = selection
    /\ Outside("palette")

\* Enter is pressed in the side panel's editor, the caret on a line that
\* reads lineText up to the caret; the line of a command is deleted and the
\* selection collapses where the loading indicator is put
KeydownEnter ==
    /\ selection.kind # "none"
    /\ \E lineText \in Lines :
        IF detectCommand(lineText) # NoName
        THEN /\ selection' = AfterEdit(selection.start)
             /\ sent' = sidePanelExecuteCommand(detectCommand(lineText),
                                                selection')
        ELSE /\ selection' = selection
             /\ sent' = {}
    /\ Outside("enter")

\* an event of the command palette: the page and the panel are left alone
PaletteStep(op) ==
    /\ OutsideOnly(op)
    /\ selection' = selection
    /\ UNCHANGED <<panel, storage>>

\* the shortcut or the toolbar message shows the palette
ShowPalette ==
    /\ palette' = showPalette(palette)
    /\ sent' = {}
    /\ PaletteStep("showPalette")

\* Escape or a click on the backdrop
HidePalette ==
    /\ palette.visible
    /\ palette' = hidePalette(palette)
    /\ sent' = {}
    /\ PaletteStep("hidePalette")

\* the user edits the text of the palette's input
PaletteInput ==
    /\ palette.visible
    /\ \E value \in Lines : palette' = handleInput(palette, value)
    /\ sent' = {}
    /\ PaletteStep("paletteInput")

ArrowDown ==
    /\ palette.visible
    /\ palette' = arrowDown(palette)
    /\ sent' = {}
    /\ PaletteStep("arrowDown")

ArrowUp ==
    /\ palette.visible
    /\ palette' = arrowUp(palette)
    /\ sent' = {}
    /\ PaletteStep("arrowUp")

\* Enter in the palette's input
PaletteEnter ==
    /\ palette.visible
    /\ palette' = enter(palette)
    /\ sent' = IF selectedCommand(palette) # NoneExecuted
               THEN paletteExecuteCommand(selectedCommand(palette)[1], selection)
               ELSE {}
    /\ PaletteStep("paletteEnter")

\* a tab group is removed: the service worker's onRemoved listener runs
TabGroupRemoved ==
    /\ \E g \in Groups :
        /\ storage' = onRemoved(storage, g)
        /\ OutsideWith("onRemoved", {g})
    /\ sent' = {}
    /\ UNCHANGED <<selection, panel, palette>>

\* what a handler of the side panel leaves alone, but for the highlights,
\* the overlays, the panel and the storage; rm: the ids it removes
PanelStep(op, ids, rm) ==
    /\ HistOnly(op, ids, {}, 0, orphanSeen \ rm, removedIds \cup rm)
    /\ UNCHANGED <<doc, cols, scrollTop, fontsPending, attached, pendingRecalc,
                   rafQueue, requests, unserved, selection, palette>>

\* the handler makes no call on the overlay manager
MgrSame ==
    /\ created' = {}
    /\ UNCHANGED <<ovHighlights, overlays, children, editorChildren>>

\* the user types in the side panel's editor: the controller's 'input'
\* listener runs, and the panel's onContentChange listener calls saveContent
PanelInput ==
    /\ Cardinality((panel.timers \ {panel.saveTimeout}) \cup panel.writing) <= MaxTimers
    /\ Typing
    /\ HistOnly("input", {}, ContentChange, 0, orphanSeen, removedIds)
    /\ sent' = {}
    /\ panel' = saveContent(panel, doc', highlights)
    /\ UNCHANGED <<palette, storage>>

\* a save timer fires: its callback runs up to the await
SaveTimerFires ==
    /\ \E n \in panel.timers :
        /\ panel' = saveTimerFires(panel, storage, n).panel
        /\ storage' = saveTimerFires(panel, storage, n).storage
        /\ PanelStep("saveTimerFires", {n}, {})
    /\ MgrSame
    /\ sent' = {}
    /\ UNCHANGED highlights

\* the write of a save timer's callback completes: the callback ends
SaveTimerEnds ==
    /\ \E n \in panel.writing :
        /\ panel' = saveTimerEnds(panel, n)
        /\ PanelStep("saveTimerEnds", {n}, {})
    /\ MgrSame
    /\ sent' = {}
    /\ UNCHANGED <<highlights, storage>>

\* a highlight is clicked: the onHighlightClick listener calls showThread
ShowThread ==
    /\ \E id \in Ids :
        /\ panel' = showThread(panel, highlights, id)
        /\ PanelStep("showThread", {id}, {})
    /\ MgrSame
    /\ sent' = {}
    /\ UNCHANGED <<highlights, storage>>

\* the thread panel is closed
HideThread ==
    /\ panel' = hideThread(panel)
    /\ PanelStep("hideThread", {}, {})
    /\ MgrSame
    /\ sent' = {}
    /\ UNCHANGED <<highlights, storage>>

\* sendThreadMessage up to its await: the user's message is put in the
\* thread of the selected highlight and the request is sent
SendThreadMessage ==
    /\ panel.selectedHighlightId # Null
    /\ MapHas(highlights, panel.selectedHighlightId)
    /\ \E id \in {panel.selectedHighlightId} :
        /\ MapGet(highlights, id).thread = NoThread =>
                \E t \in Threads :
                    /\ panel.messages[t] = <<>>
                    /\ \A i \in 1..Len(highlights) : highlights[i].thread # t
        /\ \E t \in {threadOf(panel, highlights, id)} :
            /\ Len(panel.messages[t]) + 2 <= MaxMessages
            /\ highlights' = updateHighlight(highlights, id, [thread |-> t])
            /\ panel' = saveContent(
                    [panel EXCEPT
                        !.messages[t] = Append(@, [role |-> "user", highlight |-> id]),
                        !.inFlight = @ \cup {[highlight |-> id, thread |-> t]}],
                    doc, highlights')
            /\ sent' = {[type |-> "threadMessage", highlightId |-> id]}
        /\ PanelStep("sendThreadMessage", {id}, {})
    /\ MgrSame
    /\ UNCHANGED storage

\* the reply to a thread message arrives: sendThreadMessage goes on after
\* its await, for the highlight and the thread it was called for
ThreadReply ==
    /\ \E request \in panel.inFlight :
        /\ highlights' = updateHighlight(highlights, replySelected(panel, request),
                                         [thread |-> request.thread])
        /\ panel' = saveContent(
                [panel EXCEPT
                    !.messages[request.thread] =
                        Append(@, [role |-> "assistant", highlight |-> request.highlight]),
                    !.inFlight = @ \ {request}],
                doc, highlights')
        /\ PanelStep("threadReply", {request.highlight}, {})
    /\ MgrSame
    /\ sent' = {}
    /\ UNCHANGED storage

\* deleteThread: the selected highlight is removed and the panel closed
DeleteThread ==
    /\ panel.selectedHighlightId # Null
    /\ \E id \in {panel.selectedHighlightId} :
        /\ highlights' = MapDelete(highlights, id)
        /\ SetMgr(removeHighlight(Mgr, id))
        /\ panel' = hideThread(saveContent(panel, doc, highlights'))
        /\ PanelStep("deleteThread", {id}, {id})
    /\ sent' = {}
    /\ UNCHANGED storage

\* a listener is registered for one of the given event types with
\* onContentChange, onSelectionChange, onHighlightClick or onHighlightUpdated
Register(types) ==
    /\ \E type \in types, cb \in Callbacks :
        /\ listeners' = on(listeners, type, cb)
        /\ UNCHANGED <<panel, palette, storage>>
        /\ lastOp' = [op |-> "on", ids |-> {}]
    /\ emitted' = {}
    /\ called' = {}
    /\ sent' = {}
    /\ thrown' = FALSE
    /\ delivered' = NoInfo
    /\ repeated' = FALSE
    /\ passes' = 0
    /\ served' = 0
    /\ created' = {}
    /\ UNCHANGED <<doc, cols, scrollTop, fontsPending, highlights, ovHighlights,
                   overlays, children, attached, pendingRecalc, rafQueue,
                   requests, unserved, orphanSeen, removedIds, selection,
                   editorChildren, lastCalc, resolved>>

\* PositionCalculator.calculateAll is called on a batch of highlights
CalculateAll ==
    /\ \E highlightData \in CalcInputs :
        /\ lastCalc' = [highlights |-> highlightData,
                        results    |-> calculateAll(highlightData)]
        /\ UNCHANGED <<panel, palette, storage>>
        /\ lastOp' = [op |-> "calculateAll",
                      ids |-> {highlightData[k].id : k \in 1..Len(highlightData)}]
    /\ thrown' = FALSE
    /\ delivered' = NoInfo
    /\ repeated' = FALSE
    /\ UNCHANGED <<doc, cols, scrollTop, fontsPending, highlights, ovHighlights,
                   overlays, children, attached, pendingRecalc, rafQueue,
                   emitted, called, sent, passes, created, requests, served, unserved,
                   orphanSeen, removedIds, selection, editorChildren,
                   resolved, listeners>>

\* a range of the editor's text is captured as an anchor, and the anchor is
\* resolved at once against the same text
CaptureAndResolve ==
    /\ selection.kind = "editor"
    /\ selection.start < selection.end
    /\ resolved' = resolveAll(createAnchorFromRange(selection), Within,
                              Slice(doc, selection.start, selection.end))
    /\ UNCHANGED <<panel, palette, storage>>
    /\ lastOp' = [op |-> "captureAndResolve", ids |-> {}]
    /\ thrown' = FALSE
    /\ delivered' = NoInfo
    /\ repeated' = FALSE
    /\ UNCHANGED <<doc, cols, scrollTop, fontsPending, highlights, ovHighlights,
                   overlays, children, attached, pendingRecalc, rafQueue,
                   emitted, called, sent, passes, created, requests, served, unserved,
                   orphanSeen, removedIds, selection, editorChildren,
                   lastCalc, listeners>>

\* a given anchor is resolved through each entry point
ResolveAnchor ==
    /\ \E anchor \in AnchorInputs, c \in Conditions :
        resolved' = resolveAll(anchor, c, NoText)
    /\ UNCHANGED <<panel, palette, storage>>
    /\ lastOp' = [op |-> "resolve", ids |-> {}]
    /\ thrown' = FALSE
    /\ delivered' = NoInfo
    /\ repeated' = FALSE
    /\ UNCHANGED <<doc, cols, scrollTop, fontsPending, highlights, ovHighlights,
                   overlays, children, attached, pendingRecalc, rafQueue,
                   emitted, called, sent, passes, created, requests, served, unserved,
                   orphanSeen, removedIds, selection, editorChildren,
                   lastCalc, listeners>>

\* editing, highlighting and rendering in a container of fixed layout
Next ==
    \/ Input
    \/ SetContent
    \/ InsertAtCursor
    \/ AddHighlight
    \/ RemoveHighlight
    \/ LoadHighlights
    \/ RecalculateHighlights
    \/ AnimationFrame
    \/ Destroy
    \/ ClickOverlay

Spec == Init /\ [][Next]_vars

\* every recalculation trigger, over highlights loaded from storage
NextTriggers ==
    \/ Input
    \/ Scroll
    \/ Resize
    \/ FontsReady
    \/ SetContent
    \/ InsertAtCursor
    \/ LoadHighlights
    \/ RecalculateHighlights
    \/ AnimationFrame

TriggerSpec == Init /\ [][NextTriggers]_vars

\* highlights captured from the user's selection
NextCapture ==
    \/ Select
    \/ AddHighlightFromSelection
    \/ AddHighlight
    \/ RemoveHighlight
    \/ LoadHighlights

CaptureSpec == InitWithContent /\ [][NextCapture]_vars

\* listeners are registered and the events of the editor occur
NextListeners ==
    \/ Register(RaisedTypes)
    \/ Input
    \/ Select
    \/ LoadHighlights
    \/ ClickOverlay

ListenerSpec == Init /\ [][NextListeners]_vars

\* the pointer moves over and clicks the drawn highlights
NextPointer ==
    \/ LoadHighlights
    \/ RemoveHighlight
    \/ MouseEnter
    \/ MouseLeave
    \/ ClickOverlay
    \/ Resize
    \/ AnimationFrame

PointerSpec == InitWithContent /\ [][NextPointer]_vars

\* commands are started from the palette and from the side panel
NextCommand ==
    \/ Select
    \/ PaletteExecute
    \/ KeydownEnter

CommandSpec == InitWithContent /\ [][NextCommand]_vars

\* the command palette on a page with a selection
NextPalette ==
    \/ Select
    \/ ShowPalette
    \/ HidePalette
    \/ PaletteInput
    \/ ArrowDown
    \/ ArrowUp
    \/ PaletteEnter

PaletteSpec == InitWithContent /\ [][NextPalette]_vars

\* the side panel saves while tab groups are removed
NextStorage ==
    \/ PanelInput
    \/ SaveTimerFires
    \/ SaveTimerEnds
    \/ TabGroupRemoved

StorageSpec == InitStored /\ [][NextStorage]_vars

\* the controller's highlight operations
NextSync ==
    \/ Select
    \/ AddHighlightFromSelection
    \/ AddHighlight
    \/ RemoveHighlight
    \/ LoadHighlights
    \/ UpdateAnchor

SyncSpec == InitWithContent /\ [][NextSync]_vars

\* threads of the side panel: messages are sent, replies arrive
NextThread ==
    \/ LoadHighlights
    \/ ShowThread
    \/ HideThread
    \/ SendThreadMessage
    \/ ThreadReply
    \/ DeleteThread

ThreadSpec == Init /\ [][NextThread]_vars

\* the side panel saves what is typed
NextSave ==
    \/ PanelInput
    \/ AnimationFrame
    \/ SaveTimerFires
    \/ SaveTimerEnds

SaveSpec == Init /\ [][NextSave]_vars

\* thread data is attached to stored highlights
NextUpdate ==
    \/ AddHighlight
    \/ UpdateHighlight
    \/ RemoveHighlight
    \/ LoadHighlights

UpdateSpec == InitWithContent /\ [][NextUpdate]_vars

\* calculateAll on batches of highlights, over any text of the editor
NextCalc ==
    \/ CalculateAll
    \/ Scroll

CalcSpec == InitWithContent /\ [][NextCalc]_vars

\* anchors are captured from selections and resolved, over any text
NextAnchor ==
    \/ Select
    \/ CaptureAndResolve
    \/ ResolveAnchor

AnchorSpec == InitWithContent /\ [][NextAnchor]_vars

\* the user selects, html is inserted at the cursor, frames fire
NextInsert ==
    \/ Select
    \/ InsertAtCursor
    \/ AnimationFrame

InsertSpec == InitWithContent /\ [][NextInsert]_vars

\* passes in which element creation may throw for one highlight
NextFault ==
    \/ LoadHighlights
    \/ SetContent
    \/ Resize
    \/ AnimationFrame
    \/ AnimationFrameThrows
    \/ RecalculateHighlights
    \/ RecalculateHighlightsThrows

FaultSpec == Init /\ [][NextFault]_vars

\* An AnimationFrame step, told by its effect on the frame queue: it is
\* enabled exactly when a callback is registered, and no other action
\* empties the queue.
FrameFires == rafQueue > 0 /\ rafQueue' = 0

\* animation frames keep firing
LiveTriggerSpec == TriggerSpec /\ WF_rafQueue(FrameFires)

TypeOK ==
    /\ doc \in Docs
    /\ cols \in {NarrowCols, WideCols}
    /\ scrollTop \in 0..MaxScroll
    /\ pendingRecalc \in BOOLEAN
    /\ rafQueue \in Nat
    /\ requests \in 0..MaxRequests
    /\ MapKeys(highlights) \subseteq Ids
    /\ MapKeys(ovHighlights) \subseteq Ids
    /\ DOMAIN overlays \subseteq Ids
    /\ selection \in Selections
    /\ editorChildren = <<>>
    /\ thrown \in BOOLEAN
    /\ repeated \in BOOLEAN

\* ----------------------------------------------------------------- claims
TriggerOps == {"input", "scroll", "resize", "fontsReady"}

\* C1: however many scheduleRecalculation calls are made before the next
\* frame fires, exactly one frame callback is registered, and the frame that
\* fires runs exactly one recalculateAll pass.
C1_Coalesced ==
    /\ requests >= 1 => rafQueue = 1 /\ pendingRecalc
    /\ requests = 0 => rafQueue = 0 /\ ~pendingRecalc
    /\ lastOp.op = "frame" => passes = 1

\* a frame has fired that had collected two or more calls, and ran one pass
C1_Witness == lastOp.op = "frame" /\ served >= 2 /\ passes = 1

\* C2: every input, scroll, resize and font-load trigger is eventually
\* followed by a recalculation pass that starts after it, also when a pass
\* was already pending at the time of the trigger.
C2_TriggerServed == unserved ~> ~unserved

\* a trigger arrived while an earlier request was still pending
C2_Witness == lastOp.op \in TriggerOps /\ unserved /\ requests >= 2

\* the overlay elements in the container that carry highlight id
ChildrenOf(id) ==
    {children[i].el : i \in {k \in 1..Len(children) : children[k].id = id}}

\* the overlay elements recorded for highlight id
Registered(id) == IF id \in DOMAIN overlays THEN SeqRange(overlays[id]) ELSE {}

\* the container-relative rectangles that the anchor resolves to now
RectsNow(anchor) == toContainerRelative(getRectsForAnchor(anchor).rects)

UpdateEvent(r) ==
    [type |-> "highlightUpdated", id |-> r.id, newExact |-> r.updatedExact]

\* C3: whenever a recalculation pass resolves a tracked highlight to text
\* that differs from its stored exact, an update event with the highlight's
\* id and the found text reaches the controller's listener.
C3_DriftEmitsUpdate ==
    [][lastOp'.op \in PassOps =>
        \A r \in Drifted(ovHighlights) : UpdateEvent(r) \in emitted']_vars

\* C4: after a pass that finds drift for a stored highlight, the stored
\* anchor.exact is the found text, and a pass over the unchanged document
\* finds no drift for that highlight.
C4_DriftCorrected ==
    [][lastOp'.op \in PassOps =>
        \A r \in Drifted(ovHighlights) :
            MapHas(highlights, r.id) =>
                /\ MapHas(highlights', r.id)
                /\ MapGet(highlights', r.id).anchor.exact = r.updatedExact
                /\ r.id \notin {x.id : x \in Drifted(ovHighlights)'}]_vars

LeaveOps == {"removeHighlight", "loadHighlights", "destroy"}

\* C5: a pass leaves a tracked highlight whose anchor does not resolve
\* without overlay elements, but still tracked and still stored, with the
\* same anchor; a highlight leaves the tracked set or the controller's map
\* only in a removeHighlight, loadHighlights or destroy step.
C5_OrphanKept ==
    [][/\ \A id \in MapKeys(ovHighlights) :
            /\ (lastOp'.op \in PassOps
                    /\ Unresolved(MapGet(ovHighlights, id).anchor))
                => /\ id \notin DOMAIN overlays'
                   /\ ChildrenOf(id)' = {}
                   /\ MapHas(ovHighlights', id)
                   /\ MapGet(ovHighlights', id) = MapGet(ovHighlights, id)
                   /\ MapHas(highlights, id) =>
                        /\ MapHas(highlights', id)
                        /\ MapGet(highlights', id) = MapGet(highlights, id)
            /\ ~MapHas(ovHighlights', id) => lastOp'.op \in LeaveOps
       /\ \A id \in MapKeys(highlights) :
            ~MapHas(highlights', id) => lastOp'.op \in LeaveOps]_vars

\* a pass has run over a tracked, stored highlight that does not resolve
C5_Witness ==
    /\ lastOp.op \in PassOps
    /\ \E id \in MapKeys(ovHighlights) :
        /\ Unresolved(MapGet(ovHighlights, id).anchor)
        /\ MapHas(highlights, id)
        /\ id \notin DOMAIN overlays

\* C6: after a pass, every highlight that was found unresolved since it was
\* added or loaded, and whose anchor resolves in the current text, has its
\* overlay elements again, one per rectangle.
C6_OrphanRecovers ==
    lastOp.op \in PassOps =>
        \A id \in orphanSeen \cap MapKeys(ovHighlights) :
            ~Unresolved(MapGet(ovHighlights, id).anchor) =>
                /\ id \in DOMAIN overlays
                /\ Len(overlays[id]) = Len(RectsNow(MapGet(ovHighlights, id).anchor))
                /\ ChildrenOf(id) = Registered(id)

\* a highlight that had been orphaned is rendered again by a pass
C6_Witness ==
    /\ lastOp.op \in PassOps
    /\ \E id \in orphanSeen : id \in DOMAIN overlays /\ ChildrenOf(id) # {}

C9_RemovedStaysGone ==
    \A id \in removedIds :
        /\ ~MapHas(highlights, id)
        /\ ~MapHas(ovHighlights, id)
        /\ id \notin DOMAIN overlays
        /\ ChildrenOf(id) = {}
        /\ \A e \in emitted : e.id # id

\* a frame has fired after a removal, and repainted another highlight
C9_Witness ==
    /\ lastOp.op = "frame"
    /\ removedIds # {}
    /\ children # <<>>

\* the ids rendered by the operation that produced this state
RenderedIds ==
    IF lastOp.op \in PassOps THEN MapKeys(ovHighlights)
    ELSE IF lastOp.op \in {"addHighlight", "loadHighlights"} THEN lastOp.ids
    ELSE {}

ManagerOps == {"addHighlight", "removeHighlight", "loadHighlights",
               "recalculateAll", "frame", "destroy"}

\* the elements that are children of the overlay container
ContainerEls == {children[i].el : i \in 1..Len(children)}

\* C11: no overlay-manager operation changes the editor's text or gives the
\* editable element a child: every overlay element that is recorded is a
\* child of the overlay container, and none is a child of the editor.
C11_EditorUntouched ==
    [][/\ lastOp'.op \in ManagerOps => doc' = doc
       /\ editorChildren' = <<>>
       /\ \A id \in DOMAIN overlays' :
            SeqRange(overlays'[id]) \subseteq ContainerEls']_vars

\* a pass has painted overlay elements over a non-empty text
C11_Witness ==
    /\ lastOp.op \in PassOps
    /\ doc # <<>>
    /\ ContainerEls # {}
    /\ editorChildren = <<>>

\* the operations in which only the overlay manager runs
ManagerOnlyOps == {"recalculateAll", "frame", "destroy"}

AddOps == {"addHighlight", "loadHighlights", "addHighlightFromSelection"}

\* C12: the overlay manager never changes a highlight or an anchor: a step
\* in which only the manager runs leaves the controller's highlights as
\* they are, a tracked anchor changes only when its id is added again, and
\* the anchor tracked after an add is the anchor that was given.
C12_AnchorsNotWritten ==
    [][/\ lastOp'.op \in ManagerOnlyOps => highlights' = highlights
       /\ \A id \in MapKeys(ovHighlights) \cap MapKeys(ovHighlights') :
            id \notin lastOp'.ids =>
                MapGet(ovHighlights', id).anchor = MapGet(ovHighlights, id).anchor
       /\ \A id \in MapKeys(highlights') \cap MapKeys(ovHighlights') :
            (lastOp'.op \in AddOps /\ id \in lastOp'.ids) =>
                MapGet(ovHighlights', id).anchor = MapGet(highlights', id).anchor]_vars

\* a pass has run over a highlight whose found text differs from its exact
C12_Witness ==
    /\ lastOp.op \in PassOps
    /\ Drifted(ovHighlights) # {}
    /\ \A r \in Drifted(ovHighlights) : MapHas(highlights, r.id)

Unusable(sel) ==
    \/ sel.kind # "editor"
    \/ sel.start = sel.end
    \/ \A i \in (sel.start + 1)..sel.end : doc[i] = Space

\* C15: with an unusable selection addHighlightFromSelection returns null,
\* and a call that returns null leaves the controller's map, the tracked
\* set, the overlay elements and the selection as they were.
C15_FailureIsNoOp ==
    [][lastOp'.op = "addHighlightFromSelection" =>
        /\ ~thrown'
        /\ Unusable(selection) => lastOp'.ids = {}
        /\ lastOp'.ids = {} =>
            /\ highlights' = highlights
            /\ ovHighlights' = ovHighlights
            /\ overlays' = overlays
            /\ children' = children
            /\ selection' = selection]_vars

\* the call has returned null on a selection of whitespace, with a
\* highlight stored
C15_Witness ==
    /\ lastOp.op = "addHighlightFromSelection"
    /\ lastOp.ids = {}
    /\ selection.kind = "editor"
    /\ selection.start < selection.end
    /\ highlights # <<>>

Fails(anchor) == toRangeThrows(anchor) \/ toRange(doc, anchor) = NoRange

\* the sequence s without its k-th element
Without(s, k) == SubSeq(s, 1, k - 1) \o SubSeq(s, k + 1, Len(s))

\* C17: calculateAll returns one result per highlight, in the order given
\* and with the same ids; a highlight whose resolution fails or throws gets
\* no rectangles and isValid = false, nothing is thrown, and the other
\* results are those of the batch without the failing highlight.
C17_BatchSurvivesFailure ==
    lastOp.op = "calculateAll" =>
        LET hd == lastCalc.highlights
            rs == lastCalc.results
        IN  /\ ~thrown
            /\ Len(rs) = Len(hd)
            /\ \A k \in 1..Len(hd) :
                /\ rs[k].id = hd[k].id
                /\ Fails(hd[k].anchor) =>
                    /\ rs[k].rects = <<>>
                    /\ ~rs[k].isValid
                    /\ Without(rs, k) = calculateAll(Without(hd, k))

\* a batch holds a damaged highlight before one that resolves
C17_Witness ==
    /\ lastOp.op = "calculateAll"
    /\ Len(lastCalc.results) = 2
    /\ toRangeThrows(lastCalc.highlights[1].anchor)
    /\ lastCalc.results[2].isValid

C18_FaultContained ==
    (lastOp.op \in PassOps /\ lastOp.ids # {}) =>
        /\ ~thrown
        /\ \A f \in lastOp.ids : Registered(f) = {} /\ ChildrenOf(f) = {}
        /\ \A k \in 1..Len(ovHighlights) :
            ovHighlights[k].id \notin lastOp.ids =>
                /\ Registered(ovHighlights[k].id) \subseteq created
                /\ ChildrenOf(ovHighlights[k].id) = Registered(ovHighlights[k].id)
                /\ Cardinality(Registered(ovHighlights[k].id))
                        = Len(RectsNow(ovHighlights[k].anchor))

\* the rectangles drawn for highlight id, in the order of their elements
RectsOf(ch, id) ==
    LET own == SelectSeq(ch, LAMBDA c : c.id = id)
    IN  [k \in 1..Len(own) |-> own[k].rect]

\* C20: a pass that directly follows a pass, with no change of the text,
\* the scroll position or the layout in between, leaves for every highlight
\* the same rectangles (as many, with the same left, top, width and height)
\* and as many recorded elements; no pass changes the tracked highlights.
C20_PassIdempotent ==
    [][/\ lastOp'.op \in PassOps => ovHighlights' = ovHighlights
       /\ (lastOp.op \in PassOps /\ lastOp'.op \in PassOps) =>
            /\ DOMAIN overlays' = DOMAIN overlays
            /\ \A id \in Ids \cup GeneratedIds :
                /\ RectsOf(children', id) = RectsOf(children, id)
                /\ Cardinality(Registered(id)') = Cardinality(Registered(id))]_vars

\* a direct recalculateAll call follows a pass and highlights are drawn
C20_Witness ==
    /\ repeated
    /\ lastOp.op = "recalculateAll"
    /\ overlays # <<>>
    /\ \E k \in 1..Len(children) : children[k].id \in DOMAIN overlays

\* the text holds the quote somewhere, character for character
Occurs(text, exact) ==
    \E p \in 0..(Len(text) - Len(exact)) : Slice(text, p, p + Len(exact)) = exact

\* every entry point has reported not-found
NotFound ==
    /\ resolved.find = NoRange
    /\ resolved.get = NoRange
    /\ resolved.rects = [rects |-> <<>>, foundText |-> NoText]

C22_NoApproximateMatch ==
    (/\ lastOp.op = "resolve"
     /\ resolved.where = Within
     /\ ~toRangeThrows(resolved.anchor)
     /\ ~Occurs(doc, resolved.anchor.exact)) => NotFound

\* C23: when the start or the end of the located range lies outside the
\* container, findRangeFromAnchor, getRectsForAnchor and getRangeFromAnchor
\* all report not-found.
C23_ForeignRangeRejected ==
    (/\ lastOp.op = "resolve"
     /\ (~resolved.where.startIn \/ ~resolved.where.endIn)) => NotFound

\* insertAtCursor has put some html where the claim says: at the end without
\* a selection in the editor, else in place of the selected text
InsertedByRule ==
    \E html \in Snippets :
        IF selection.kind = "editor"
        THEN doc' = Slice(doc, 0, selection.start) \o html
                        \o Slice(doc, selection.end, Len(doc))
        ELSE doc' = doc \o html

C25_SelectionOrNull ==
    /\ [](lastOp.op = "select" =>
            /\ delivered # NoInfo <=>
                    /\ selection.kind = "editor"
                    /\ selection.start < selection.end
                    /\ ~IsBlank(Slice(doc, selection.start, selection.end))
            /\ delivered # NoInfo =>
                    /\ delivered.text = Slice(doc, selection.start, selection.end)
                    /\ delivered.start = selection.start
                    /\ delivered.end = selection.end)
    /\ [][lastOp'.op = "insertAtCursor" => delivered' = delivered]_vars

\* a result was returned and insertAtCursor has since moved the selection
C25_Witness ==
    /\ lastOp.op = "insertAtCursor"
    /\ delivered # NoInfo
    /\ selection.kind = "editor"
    /\ selection.start # delivered.start

\* C30: updateHighlight(id, updates) sets the fields named in updates on
\* the highlight stored under id and changes no other field of it and no
\* other stored highlight; when id is not stored nothing changes; it does
\* not throw, and what the overlay manager tracks and draws stays as it is.
C30_UpdateMergesFields ==
    [][lastOp'.op = "updateHighlight" =>
        /\ ~thrown'
        /\ Len(highlights') = Len(highlights)
        /\ <<ovHighlights, overlays, children>>' = <<ovHighlights, overlays, children>>
        /\ (\A id \in lastOp'.ids : ~MapHas(highlights, id)) => highlights' = highlights
        /\ \E updates \in Updates :
            \A i \in 1..Len(highlights) :
                IF highlights[i].id \in lastOp'.ids
                THEN \A f \in DOMAIN highlights[i] :
                        highlights'[i][f] = IF f \in DOMAIN updates
                                            THEN updates[f]
                                            ELSE highlights[i][f]
                ELSE highlights'[i] = highlights[i]]_vars

\* one of two stored highlights has received a thread, the other has none
C30_Witness ==
    /\ lastOp.op = "updateHighlight"
    /\ Len(highlights) = 2
    /\ \E i \in 1..2 :
        /\ highlights[i].id \in lastOp.ids
        /\ highlights[i].thread \in Threads
        /\ highlights[i].anchor # NoAnchor
    /\ \E i \in 1..2 : highlights[i].thread = NoThread

Released == <<ovHighlights, overlays, children, attached, pendingRecalc, rafQueue>>

\* C27: after destroy the overlay manager tracks no highlights, holds no
\* overlay elements and its container is out of the document; destroy on a
\* manager that is already destroyed changes none of this, and no call of
\* destroy throws.
C27_DestroyIdempotent ==
    [][lastOp'.op = "destroy" =>
        /\ ovHighlights' = <<>>
        /\ DOMAIN overlays' = {}
        /\ children' = <<>>
        /\ ~attached'
        /\ ~thrown'
        /\ ~attached => Released' = Released]_vars

\* destroy is called on a destroyed manager while a recalculation that was
\* requested after the first call is pending
C27_Witness ==
    /\ lastOp.op = "destroy"
    /\ repeated
    /\ pendingRecalc
    /\ ~attached
    /\ children = <<>>

\* the geometry and the owner of every element of the overlay container
Drawn == [k \in 1..Len(children) |->
            [el |-> children[k].el, id |-> children[k].id,
             rect |-> children[k].rect]]

\* C28: a click on an overlay element of highlight X calls the click handler
\* once, with X; the handler is never called with an id the overlay manager
\* does not track; the pointer entering or leaving an element calls no
\* handler and changes nothing but that element's colour.
C28_ClickReportsTracked ==
    /\ [](\A e \in emitted : e.type = "click" => e.id \in MapKeys(ovHighlights))
    /\ [](lastOp.op = "click" =>
            /\ Cardinality(lastOp.ids) = 1
            /\ emitted = {[type |-> "click", id |-> x, newExact |-> NoText] :
                              x \in lastOp.ids})
    /\ [][lastOp'.op \in {"mouseenter", "mouseleave"} =>
            /\ emitted' = {}
            /\ Drawn' = Drawn
            /\ UNCHANGED <<ovHighlights, overlays, highlights, doc,
                           pendingRecalc, rafQueue, editorChildren>>]_vars

\* two highlights are tracked and the element under the pointer is clicked
C28_Witness ==
    /\ lastOp.op = "click"
    /\ Cardinality(MapKeys(ovHighlights)) = 2
    /\ \E k \in 1..Len(children) :
        /\ children[k].backgroundColor = Emphasis
        /\ children[k].id \in lastOp.ids
        /\ [type |-> "click", id |-> children[k].id, newExact |-> NoText] \in emitted

\* C29: a message for a command whose requiresSelection is true is sent,
\* and the command executed by the service worker, only when the selection
\* held some text that is not blank; this for the command palette and for
\* /name typed in the side panel.
C29_SelectionRequired ==
    [][\A message \in sent' :
        handleExecuteCommand(message).command.requiresSelection =>
            Trim(SelectedText(selection)) # <<>>]_vars

C33_SameAnchors ==
    \A i \in 1..Len(highlights) :
        MapHas(ovHighlights, highlights[i].id) =>
            LET tracked == MapGet(ovHighlights, highlights[i].id).anchor
            IN  /\ tracked.exact = highlights[i].anchor.exact
                /\ tracked.prefix = highlights[i].anchor.prefix
                /\ tracked.suffix = highlights[i].anchor.suffix

\* C34: in every state, only tracked highlights have overlay elements, and
\* the children of the overlay container are exactly the elements recorded
\* in the overlays map, each once and under the id it carries.
C34_ContainerMatchesMap ==
    /\ DOMAIN overlays \subseteq MapKeys(ovHighlights)
    /\ \A k \in 1..Len(children) :
        /\ children[k].id \in MapKeys(ovHighlights)
        /\ children[k].el \in Registered(children[k].id)
        /\ \A j \in 1..Len(children) : children[j].el = children[k].el => j = k
    /\ \A id \in DOMAIN overlays :
        /\ Registered(id) \subseteq ChildrenOf(id)
        /\ Len(overlays[id]) = Cardinality(Registered(id))

\* a pass has redrawn one tracked highlight while another has no element
C34_Witness ==
    /\ lastOp.op \in PassOps
    /\ children # <<>>
    /\ \E id \in MapKeys(ovHighlights) : id \notin DOMAIN overlays

\* C35: pendingRecalc is true exactly while a frame callback is registered
\* and has not run, also after a scheduled pass that ended with an
\* exception; a direct recalculateAll call changes neither the flag nor the
\* registered callback.
C35_FlagTracksFrame ==
    /\ [](pendingRecalc <=> rafQueue > 0)
    /\ [][lastOp'.op = "recalculateAll" =>
            UNCHANGED <<pendingRecalc, rafQueue>>]_vars

\* C36: when the reply to a thread message arrives, the thread of every
\* other stored highlight is the thread it was before, with the messages it
\* had, whatever is selected by then.
C36_ReplyStaysInThread ==
    [][lastOp'.op = "threadReply" =>
        \A i \in 1..Len(highlights) :
            highlights[i].id \notin lastOp'.ids =>
                /\ highlights'[i].thread = highlights[i].thread
                /\ highlights[i].thread # NoThread =>
                        panel'.messages[highlights[i].thread]
                            = panel.messages[highlights[i].thread]]_vars

\* C37: at most one save timer is pending; a write carries the content and
\* the highlights that the most recent saveContent() call has taken.
C37_OneSaveTimer ==
    /\ [](Cardinality(panel.timers) <= 1)
    /\ [][lastOp'.op = "saveTimerFires" =>
            storage'[<<"sidepanel_data", panel.currentGroupId>>]
                = Stored(panel.currentData)]_vars

\* C38: in the command palette selectedIndex is never negative and is below
\* the number of filtered commands when that list is not empty; Enter
\* executes only a command of the filtered list, and none when it is empty.
C38_IndexInList ==
    /\ [](/\ palette.selectedIndex >= 0
          /\ palette.filteredCommands # <<>> =>
                palette.selectedIndex < Len(palette.filteredCommands))
    /\ [][lastOp'.op = "paletteEnter" =>
            /\ \A k \in 1..Len(palette'.executed) :
                    \E j \in 1..Len(palette.filteredCommands) :
                        palette.filteredCommands[j] = palette'.executed[k]
            /\ \A m \in sent' :
                    \E j \in 1..Len(palette.filteredCommands) :
                        palette.filteredCommands[j].name = m.command]_vars

\* C39: when the removal handler of a tab group has run, neither
\* sidebar_content_<id> nor sidepanel_data_<id> of that group is in storage.
C39_GroupKeysDeleted ==
    [][lastOp'.op = "onRemoved" =>
        \A g \in lastOp'.ids :
            /\ storage'[<<"sidebar_content", g>>] = Absent
            /\ storage'[<<"sidepanel_data", g>>] = Absent]_vars

====
